---- MODULE Spec2Model ----
(***************************************************************************)
(* State-machine model of the markboard backend: the relational tables     *)
(* (files, teams, team_members, file_versions, activity_logs), the on-disk *)
(* content store, and the operations of FileService / TeamService          *)
(* (src/app/services) and of the files.py / teams.py request handlers.     *)
(* Every operation is a pure operator from the current store and the       *)
(* call's inputs to the new store and the call's result; one action per    *)
(* operation applies it.                                                   *)
(***************************************************************************)
EXTENDS Integers, Sequences, FiniteSets, TLC

\* ---------------------------------------------------------------- bounds
\* the auto-increment ids handed out: files.id and teams.id; MaxScopeFiles is
\* the cap of the single-user specification that explores name collisions
MaxFiles == 1
MaxTeams == 1
MaxScopeFiles == 2
MaxVersions == 1
\* the longest short filename handed to the sanitizer
MaxNameLen == 3
\* the longest activity log a run that keeps the log may build
MaxLog == 2

\* ------------------------------------------------------------- constants
MaxStrLen == 255
BucketSize == 1000

Users == {1, 2}
NULL == 0
NullPath == <<"NULL">>
EmptyPath == <<"">>
Stamped == 1
NullSum == <<"NULL">>
None == <<"None">>
NoneName == <<"None">>

\* the inputs of the calls: a blank name, a clean name, a name that needs
\* sanitizing and one that sanitizes to nothing
NameInputs == {<<" ">>, <<"a">>, <<"a", "/">>, <<"/">>}
\* a content is the sequence of its characters
NewContents == {<<"x">>}
Contents == {<<"x">>, <<"y", "y">>}
\* the contents given to the content store alone: with a line feed, a
\* carriage return, both, and a character of two UTF-8 bytes
StoreContents == {<<>>, <<"x">>, <<"x", "\n">>, <<"x", "\r">>, <<"\r", "\n", "x">>, <<"é">>}
TeamNames == {"t1"}
\* what the environment may do to a call: nothing, fail the INSERT into
\* activity_logs, or fail the write of the content
Faults == {"none", "log", "save"}
LogFaults == {"none", "log"}
\* and, for a team creation, fail the INSERT into team_members
TeamFaults == {"none", "log", "member"}
\* and, for an update through the request handler, fail the INSERT into
\* file_versions
VersionFaults == {"none", "version"}

VARIABLES files, disk, teams, team_members, file_versions, activity_logs,
          nextFileId, nextTeamId, nextVersionId, cap, last, inflight

vars == <<files, disk, teams, team_members, file_versions, activity_logs,
          nextFileId, nextTeamId, nextVersionId, cap, last, inflight>>

\* ------------------------------------------------------ string utilities
IsWord(c) == c \in {"a", "b", "_", "0", "é"}
IsSpace(c) == c \in {" ", "\t", "\n"}

\* str.strip(chars): drop leading and trailing characters of the set
RECURSIVE lstrip(_, _)
lstrip(s, cs) == IF s # <<>> /\ Head(s) \in cs THEN lstrip(Tail(s), cs) ELSE s

RECURSIVE rstrip(_, _)
rstrip(s, cs) ==
    IF s # <<>> /\ s[Len(s)] \in cs THEN rstrip(SubSeq(s, 1, Len(s) - 1), cs) ELSE s

strip(s, cs) == rstrip(lstrip(s, cs), cs)

Whitespace == {" ", "\t", "\n"}

Untitled == <<"u", "n", "t", "i", "t", "l", "e", "d">>

sanitize_filename(filename) ==
    LET kept == SelectSeq(filename, LAMBDA c : IsWord(c) \/ IsSpace(c) \/ c \in {".", "-"})
        sanitized == strip(kept, {".", " "})
    IN IF sanitized # <<>>
       THEN SubSeq(sanitized, 1, IF Len(sanitized) < MaxStrLen THEN Len(sanitized) ELSE MaxStrLen)
       ELSE Untitled

\* ----------------------------------------------------------- content store
\* the bytes of a text written with encoding="utf-8"; on POSIX a text-mode
\* write translates no newline
Utf8Len(c) == IF c = "é" THEN 2 ELSE 1

RECURSIVE ByteLen(_)
ByteLen(content) ==
    IF content = <<>> THEN 0 ELSE Utf8Len(Head(content)) + ByteLen(Tail(content))

\* a text-mode read (newline=None) turns "\r\n" and "\r" into "\n"
RECURSIVE universal_newlines(_)
universal_newlines(content) ==
    IF content = <<>> THEN <<>>
    ELSE IF Head(content) = "\r"
    THEN <<"\n">> \o universal_newlines(
             IF Len(content) > 1 /\ content[2] = "\n" THEN Tail(Tail(content))
             ELSE Tail(content))
    ELSE <<Head(content)>> \o universal_newlines(Tail(content))

\* the digest of the bytes stored: equal digests, equal bytes
sha256(content) == <<"sha256:">> \o content

generate_file_path(file_id, filename) ==
    <<"files", file_id \div BucketSize, file_id, sanitize_filename(filename)>>

file_exists(d, file_path) == file_path \in DOMAIN d

\* save_file: the new disk, the size and the checksum; raises on a write fault,
\* when the path is None (Path(None) is a TypeError) and when it is "" (open("")
\* is a FileNotFoundError)
save_file(d, file_path, content, fault) ==
    IF fault = "save" \/ file_path \in {NullPath, EmptyPath}
    THEN [raised |-> TRUE, disk |-> d, file_size |-> 0, checksum |-> NullSum]
    ELSE [raised |-> FALSE,
          disk |-> [p \in DOMAIN d \cup {file_path} |-> IF p = file_path THEN content ELSE d[p]],
          file_size |-> ByteLen(content),
          checksum |-> sha256(content)]

\* read_file: "type" for os.path.exists(None), "missing" for FileNotFoundError
read_file(d, file_path) ==
    IF file_path = NullPath THEN [raised |-> "type", content |-> None]
    ELSE IF ~file_exists(d, file_path) THEN [raised |-> "missing", content |-> None]
    ELSE [raised |-> "no", content |-> universal_newlines(d[file_path])]

verify_file_integrity(d, file_path, expected_checksum) ==
    IF ~file_exists(d, file_path) THEN FALSE
    ELSE sha256(d[file_path]) = expected_checksum

\* delete_file never raises: every error is caught and reported as False
storage_delete_file(d, file_path) ==
    IF file_path # NullPath /\ file_exists(d, file_path)
    THEN [p \in DOMAIN d \ {file_path} |-> d[p]]
    ELSE d

\* ------------------------------------------------------------ the store
\* activity_logs holds the rows the latest call inserted: no operation of the
\* model reads the table, so the rows of earlier calls are not kept
World == [files |-> files, disk |-> disk, teams |-> teams,
          team_members |-> team_members, file_versions |-> file_versions,
          activity_logs |-> IF cap.log = 0 THEN <<>> ELSE activity_logs,
          nextFileId |-> nextFileId,
          nextTeamId |-> nextTeamId, nextVersionId |-> nextVersionId]

\* a service call returns (success, message); a request handler returns an
\* HTTP status and a message. io: the content-store calls the call made.
Out(w, ok, msg, io) == [w |-> w, res |-> [ok |-> ok, msg |-> msg, io |-> io, status |-> NULL]]

Http(w, status, msg, io) ==
    [w |-> w, res |-> [ok |-> status < 400, msg |-> msg, io |-> io, status |-> status]]

\* ------------------------------------------------------- activity recorder
log_activity_raises(w, user_id, action, resource_type, resource_id, fault) ==
    IF fault = "log"
    THEN [w |-> w, raised |-> TRUE]
    ELSE [w |-> [w EXCEPT !.activity_logs =
                    Append(@, [user_id |-> user_id, action |-> action,
                               resource_type |-> resource_type,
                               resource_id |-> resource_id])],
          raised |-> FALSE]

log_activity_overwrites(w, user_id, action, resource_type, resource_id, fault) ==
    IF fault = "log"
    THEN [w |-> w, raised |-> FALSE]
    ELSE [w |-> [w EXCEPT !.activity_logs =
                    <<[user_id |-> user_id, action |-> action,
                       resource_type |-> resource_type,
                       resource_id |-> resource_id]>>],
          raised |-> FALSE]

\* the INSERT may fail; the exception is caught and logged, never re-raised
log_activity(w, user_id, action, resource_type, resource_id, fault) ==
    IF fault = "log"
    THEN [w |-> w, raised |-> FALSE]
    ELSE [w |-> [w EXCEPT !.activity_logs =
                    Append(@, [user_id |-> user_id, action |-> action,
                               resource_type |-> resource_type,
                               resource_id |-> resource_id])],
          raised |-> FALSE]

\* ----------------------------------------------------------- access control
NoMember == [team_id |-> NULL, user_id |-> NULL, role |-> "NULL"]

\* files f LEFT JOIN team_members tm ON f.team_id = tm.team_id AND tm.user_id = u
LeftJoinMembers(w, user_id) ==
    LET on(f, tm) == f.team_id # NULL /\ f.team_id = tm.team_id /\ tm.user_id = user_id
    IN {<<f, tm>> \in w.files \X w.team_members : on(f, tm)}
       \cup {<<f, NoMember>> : f \in {g \in w.files : ~\E tm \in w.team_members : on(g, tm)}}

check_file_access_any_user(w, user_id, file_id) ==
    {r \in LeftJoinMembers(w, user_id) : r[1].id = file_id} # {}

check_file_access_owner_only(w, user_id, file_id) ==
    {r \in LeftJoinMembers(w, user_id) : r[1].id = file_id /\ r[1].owner_id = user_id} # {}

check_file_access(w, user_id, file_id) ==
    {r \in LeftJoinMembers(w, user_id) :
        r[1].id = file_id /\ (r[1].owner_id = user_id \/ r[2].user_id # NULL)} # {}

\* ------------------------------------------------------------- FileService
\* the rows of files the listing query selects for the user
FileService_get_user_files(w, user_id) ==
    {r[1] : r \in {q \in LeftJoinMembers(w, user_id) :
                      q[1].owner_id = user_id \/ q[2].user_id # NULL}}

\* datetime.now(timezone.utc) of the call that is running, and every time
\* stored by a call that returned before it
Now == "now"
Before == "before"

\* the INSERT of create_file sets created_at and updated_at to the time of the call
NewFile(id, name, owner_id, team_id) ==
    [id |-> id, name |-> name, owner_id |-> owner_id, team_id |-> team_id,
     file_path |-> NullPath, file_size |-> NULL, checksum |-> NullSum,
     deleted_at |-> NULL, updated_at |-> Now]

\* the rows as a later call finds them: their times are in its past
Earlier(fs) == {[f EXCEPT !.updated_at = Before] : f \in fs}

FileById(w, file_id) == {f \in w.files : f.id = file_id}

IsMember(w, team_id, user_id) ==
    \E tm \in w.team_members : tm.team_id = team_id /\ tm.user_id = user_id

\* UPDATE files SET ... WHERE id = file_id
UpdateFile(w, file_id, Set(_)) ==
    [w EXCEPT !.files = {IF f.id = file_id THEN Set(f) ELSE f : f \in @}]

\* SELECT id FROM files WHERE name = .. AND <scope> [AND id != except_id]
ExistingInScope(w, name, owner_id, team_id, except_id) ==
    IF team_id # NULL
    THEN {f \in w.files : f.name = name /\ f.team_id = team_id /\ f.id # except_id}
    ELSE {f \in w.files : f.name = name /\ f.owner_id = owner_id
                          /\ f.team_id = NULL /\ f.id # except_id}

FileService_create_file_nomembercheck(w, name, content, owner_id, team_id, fault) ==
    IF name = <<>> \/ strip(name, Whitespace) = <<>>
    THEN Out(w, FALSE, "File name is required", {})
    ELSE
    LET clean_name == sanitize_filename(strip(name, Whitespace))
        file_id == w.nextFileId
        w1 == [w EXCEPT !.files = @ \cup {NewFile(file_id, clean_name, owner_id, team_id)},
                        !.nextFileId = @ + 1]
        file_path == generate_file_path(file_id, clean_name)
        sv == save_file(w1.disk, file_path, content, fault)
        w2 == UpdateFile([w1 EXCEPT !.disk = sv.disk], file_id,
                  LAMBDA f : [f EXCEPT !.file_path = file_path,
                                       !.file_size = sv.file_size,
                                       !.checksum = sv.checksum])
        lg == log_activity(w2, owner_id, "file_created", "file", file_id, fault)
    IN  IF ExistingInScope(w, clean_name, owner_id, team_id, NULL) # {}
        THEN Out(w, FALSE, "File with this name already exists", {})
        ELSE IF sv.raised THEN Out(w1, FALSE, "Failed to create file", {})
        ELSE IF lg.raised THEN Out(lg.w, FALSE, "Failed to create file", {"save"})
        ELSE Out(lg.w, TRUE, "File created successfully", {"save"})

FileService_create_file_nodupcheck(w, name, content, owner_id, team_id, fault) ==
    IF name = <<>> \/ strip(name, Whitespace) = <<>>
    THEN Out(w, FALSE, "File name is required", {})
    ELSE
    LET clean_name == sanitize_filename(strip(name, Whitespace))
        file_id == w.nextFileId
        w1 == [w EXCEPT !.files = @ \cup {NewFile(file_id, clean_name, owner_id, team_id)},
                        !.nextFileId = @ + 1]
        file_path == generate_file_path(file_id, clean_name)
        sv == save_file(w1.disk, file_path, content, fault)
        w2 == UpdateFile([w1 EXCEPT !.disk = sv.disk], file_id,
                  LAMBDA f : [f EXCEPT !.file_path = file_path,
                                       !.file_size = sv.file_size,
                                       !.checksum = sv.checksum])
        lg == log_activity(w2, owner_id, "file_created", "file", file_id, fault)
    IN  IF team_id # NULL /\ ~IsMember(w, team_id, owner_id)
        THEN Out(w, FALSE, "Access denied to team", {})
        ELSE IF sv.raised THEN Out(w1, FALSE, "Failed to create file", {})
        ELSE IF lg.raised THEN Out(lg.w, FALSE, "Failed to create file", {"save"})
        ELSE Out(lg.w, TRUE, "File created successfully", {"save"})

FileService_create_file(w, name, content, owner_id, team_id, fault) ==
    IF name = <<>> \/ strip(name, Whitespace) = <<>>
    THEN Out(w, FALSE, "File name is required", {})
    ELSE
    LET clean_name == sanitize_filename(strip(name, Whitespace))
        file_id == w.nextFileId
        \* INSERT INTO files (name, owner_id, team_id, ...) RETURNING id
        w1 == [w EXCEPT !.files = @ \cup {NewFile(file_id, clean_name, owner_id, team_id)},
                        !.nextFileId = @ + 1]
        file_path == generate_file_path(file_id, clean_name)
        sv == save_file(w1.disk, file_path, content, fault)
        w2 == UpdateFile([w1 EXCEPT !.disk = sv.disk], file_id,
                  LAMBDA f : [f EXCEPT !.file_path = file_path,
                                       !.file_size = sv.file_size,
                                       !.checksum = sv.checksum])
        lg == log_activity(w2, owner_id, "file_created", "file", file_id, fault)
    IN  IF clean_name = <<>> THEN Out(w, FALSE, "Invalid file name", {})
        ELSE IF team_id # NULL /\ ~IsMember(w, team_id, owner_id)
        THEN Out(w, FALSE, "Access denied to team", {})
        ELSE IF ExistingInScope(w, clean_name, owner_id, team_id, NULL) # {}
        THEN Out(w, FALSE, "File with this name already exists", {})
        ELSE IF sv.raised THEN Out(w1, FALSE, "Failed to create file", {})
        ELSE IF lg.raised THEN Out(lg.w, FALSE, "Failed to create file", {"save"})
        ELSE Out(lg.w, TRUE, "File created successfully", {"save"})

FileService_get_file_details(w, file_id, user_id, fault) ==
    IF ~check_file_access(w, user_id, file_id) THEN Out(w, FALSE, "Access denied", {})
    ELSE IF FileById(w, file_id) = {} THEN Out(w, FALSE, "File not found", {})
    ELSE
    LET file_record == CHOOSE f \in FileById(w, file_id) : TRUE
        rd == read_file(w.disk, file_record.file_path)
        lg == log_activity(w, user_id, "file_viewed", "file", file_id, fault)
    IN  IF rd.raised = "missing" THEN Out(w, FALSE, "File content not found", {})
        ELSE IF rd.raised = "type" THEN Out(w, FALSE, "Failed to read file", {})
        ELSE IF lg.raised THEN Out(lg.w, FALSE, "Failed to read file", {"read"})
        ELSE Out(lg.w, TRUE, "Success", {"read"})

FileService_get_file_content(w, file_id, user_id) ==
    IF ~check_file_access(w, user_id, file_id) THEN Out(w, FALSE, "Access denied", {})
    ELSE IF FileById(w, file_id) = {} THEN Out(w, FALSE, "File not found", {})
    ELSE
    LET file_record == CHOOSE f \in FileById(w, file_id) : TRUE
        rd == read_file(w.disk, file_record.file_path)
    IN  IF rd.raised = "missing" THEN Out(w, FALSE, "File content not found", {})
        ELSE IF rd.raised = "type" THEN Out(w, FALSE, "Failed to read file content", {})
        ELSE Out(w, TRUE, "Success", {"read"})

FileService_get_file_name(w, file_id, user_id) ==
    IF ~check_file_access(w, user_id, file_id) THEN Out(w, FALSE, "Access denied", {})
    ELSE IF FileById(w, file_id) = {} THEN Out(w, FALSE, "File not found", {})
    ELSE Out(w, TRUE, "Success", {})

FileService_update_file_chown(w, file_id, user_id, name, content, fault) ==
    IF ~check_file_access(w, user_id, file_id) THEN Out(w, FALSE, "Access denied", {})
    ELSE IF name = NoneName /\ content = None THEN Out(w, FALSE, "No updates provided", {})
    ELSE Out(UpdateFile(w, file_id, LAMBDA f : [f EXCEPT !.owner_id = user_id]),
             TRUE, "File updated successfully", {})

\* name = NoneName / content = None stand for an argument that was not given
FileService_update_file(w, file_id, user_id, name, content, fault) ==
    IF ~check_file_access(w, user_id, file_id) THEN Out(w, FALSE, "Access denied", {})
    ELSE IF FileById(w, file_id) = {} THEN Out(w, FALSE, "File not found", {})
    ELSE
    LET file_record == CHOOSE f \in FileById(w, file_id) : TRUE
        clean_name == IF name # NoneName /\ strip(name, Whitespace) # <<>>
                      THEN sanitize_filename(strip(name, Whitespace)) ELSE <<>>
        sv == save_file(w.disk, file_record.file_path, content, fault)
        w1 == IF content # None THEN [w EXCEPT !.disk = sv.disk] ELSE w
        \* one UPDATE statement sets every changed column
        w2 == UpdateFile(w1, file_id,
                  LAMBDA f : [f EXCEPT
                      !.name = IF name # NoneName THEN clean_name ELSE @,
                      !.updated_at = IF content # None THEN Now ELSE @,
                      !.file_size = IF content # None THEN sv.file_size ELSE @,
                      !.checksum = IF content # None THEN sv.checksum ELSE @])
        lg == log_activity(w2, user_id, "file_edited", "file", file_id, fault)
        io == IF content # None THEN {"save"} ELSE {}
    IN  IF name # NoneName /\ clean_name = <<>> THEN Out(w, FALSE, "Invalid file name", {})
        ELSE IF name # NoneName
                /\ ExistingInScope(w, clean_name, file_record.owner_id,
                                   file_record.team_id, file_id) # {}
        THEN Out(w, FALSE, "File with this name already exists", {})
        ELSE IF name = NoneName /\ content = None
        THEN Out(w, FALSE, "No updates provided", {})
        ELSE IF content # None /\ sv.raised THEN Out(w, FALSE, "Failed to update file", {})
        ELSE IF lg.raised THEN Out(lg.w, FALSE, "Failed to update file", io)
        ELSE Out(lg.w, TRUE, "File updated successfully", io)

FileService_delete_file(w, file_id, user_id, fault) ==
    IF ~check_file_access(w, user_id, file_id) THEN Out(w, FALSE, "Access denied", {})
    ELSE IF FileById(w, file_id) = {} THEN Out(w, FALSE, "File not found", {})
    ELSE
    LET file_record == CHOOSE f \in FileById(w, file_id) : TRUE
        \* DELETE FROM files WHERE id = .., then remove the content
        w1 == [w EXCEPT !.files = {f \in @ : f.id # file_id},
                        !.disk = storage_delete_file(@, file_record.file_path)]
        lg == log_activity(w1, user_id, "file_deleted", "file", file_id, fault)
    IN  IF lg.raised THEN Out(lg.w, FALSE, "Failed to delete file", {"delete"})
        ELSE Out(lg.w, TRUE, "File deleted successfully", {"delete"})

\* ------------------------------------------------------------- TeamService
\* Database.execute_modify returns an int (cursor.lastrowid for an INSERT), and
\* an int has no attribute `lastrowid`: reading it raises AttributeError
IntHasLastrowid == FALSE

MembersOf(w, team_id) == {tm \in w.team_members : tm.team_id = team_id}

MemberRow(w, team_id, user_id) ==
    {tm \in w.team_members : tm.team_id = team_id /\ tm.user_id = user_id}

TeamById(w, team_id) == {t \in w.teams : t.id = team_id}

TeamService_create_team(w, name, owner_id, fault) ==
    IF \E t \in w.teams : t.name = name
    THEN Out(w, FALSE, "Team name already exists", {})
    ELSE
    LET team_id == w.nextTeamId
        w1 == [w EXCEPT !.teams = @ \cup {[id |-> team_id, name |-> name,
                                           owner_id |-> owner_id]},
                        !.nextTeamId = @ + 1]
        w2 == [w1 EXCEPT !.team_members =
                  @ \cup {[team_id |-> team_id, user_id |-> owner_id, role |-> "admin"]}]
        lg == log_activity(w2, owner_id, "team_created", "team", team_id, fault)
    IN  IF ~IntHasLastrowid \/ fault = "member"
        THEN Out(w1, FALSE, "Failed to create team", {})
        ELSE IF lg.raised THEN Out(lg.w, FALSE, "Failed to create team", {})
        ELSE Out(lg.w, TRUE, "Team created successfully", {})

\* the schema is not part of the sources: teams.name is unique and
\* team_members is composite-unique on (team_id, user_id), so an INSERT of a
\* second such row raises an IntegrityError
TeamNameTaken(w, name) == \E t \in w.teams : t.name = name

MembershipTaken(w, team_id, user_id) == IsMember(w, team_id, user_id)

\* files.team_id is a foreign key to teams, declared with no action of its
\* own (RESTRICT): an INSERT of a file row whose team row is missing raises
\* an IntegrityError, and so does a DELETE of a team row that a file row
\* still names
FkParentMissing_unchecked(w, team_id) == FALSE

FkParentMissing(w, team_id) == team_id # NULL /\ \A t \in w.teams : t.id # team_id

FkChildExists(w, team_id) == \E f \in w.files : f.team_id = team_id

\* join_team up to its two SELECTs: the refusal, or "pass"
join_team_check(w, team_id, user_id) ==
    IF TeamById(w, team_id) = {} THEN "Team not found"
    ELSE IF IsMember(w, team_id, user_id) THEN "Already a member of this team"
    ELSE "pass"

\* join_team from its INSERT on, on the store as it is when the INSERT runs
join_team_insert(w, team_id, user_id, fault) ==
    LET w1 == [w EXCEPT !.team_members =
                  @ \cup {[team_id |-> team_id, user_id |-> user_id, role |-> "member"]}]
        lg == log_activity(w1, user_id, "team_joined", "team", team_id, fault)
    IN  IF MembershipTaken(w, team_id, user_id) THEN Out(w, FALSE, "Failed to join team", {})
        ELSE IF lg.raised THEN Out(lg.w, FALSE, "Failed to join team", {})
        ELSE Out(lg.w, TRUE, "Successfully joined team", {})

TeamService_join_team(w, team_id, user_id, fault) ==
    IF join_team_check(w, team_id, user_id) # "pass"
    THEN Out(w, FALSE, join_team_check(w, team_id, user_id), {})
    ELSE join_team_insert(w, team_id, user_id, fault)

TeamService_leave_team_owner_too(w, team_id, user_id, fault) ==
    IF ~IsMember(w, team_id, user_id) THEN Out(w, FALSE, "Not a member of this team", {})
    ELSE
    LET w1 == [w EXCEPT !.team_members =
                  {tm \in @ : ~(tm.team_id = team_id /\ tm.user_id = user_id)}]
    IN  Out(log_activity(w1, user_id, "team_left", "team", team_id, fault).w,
            TRUE, "Successfully left team", {})

TeamService_leave_team(w, team_id, user_id, fault) ==
    IF ~IsMember(w, team_id, user_id) THEN Out(w, FALSE, "Not a member of this team", {})
    ELSE IF TeamById(w, team_id) = {} THEN Out(w, FALSE, "Team not found", {})
    ELSE
    LET team == CHOOSE t \in TeamById(w, team_id) : TRUE
        w1 == [w EXCEPT !.team_members =
                  {tm \in @ : ~(tm.team_id = team_id /\ tm.user_id = user_id)}]
        lg == log_activity(w1, user_id, "team_left", "team", team_id, fault)
    IN  IF team.owner_id = user_id THEN Out(w, FALSE, "Team owner cannot leave the team", {})
        ELSE IF lg.raised THEN Out(lg.w, FALSE, "Failed to leave team", {})
        ELSE Out(lg.w, TRUE, "Successfully left team", {})

TeamService_disband_team_by_anyone(w, team_id, user_id, fault) ==
    IF TeamById(w, team_id) = {} THEN Out(w, FALSE, "Team not found", {})
    ELSE
    LET w1 == [w EXCEPT !.files = {IF f.team_id = team_id
                                   THEN [f EXCEPT !.team_id = NULL] ELSE f : f \in @},
                        !.team_members = {tm \in @ : tm.team_id # team_id},
                        !.teams = {t \in @ : t.id # team_id}]
    IN  Out(log_activity(w1, user_id, "team_deleted", "team", team_id, fault).w,
            TRUE, "Team disbanded successfully", {})

TeamService_disband_team_keep_files(w, team_id, user_id, fault) ==
    IF TeamById(w, team_id) = {} THEN Out(w, FALSE, "Team not found", {})
    ELSE
    LET team == CHOOSE t \in TeamById(w, team_id) : TRUE
        w1 == [w EXCEPT !.team_members = {tm \in @ : tm.team_id # team_id},
                        !.teams = {t \in @ : t.id # team_id}]
        lg == log_activity(w1, user_id, "team_deleted", "team", team_id, fault)
    IN  IF team.owner_id # user_id
        THEN Out(w, FALSE, "Only team owner can disband the team", {})
        ELSE IF lg.raised THEN Out(lg.w, FALSE, "Failed to disband team", {})
        ELSE Out(lg.w, TRUE, "Team disbanded successfully", {})

TeamService_disband_team(w, team_id, user_id, fault) ==
    IF TeamById(w, team_id) = {} THEN Out(w, FALSE, "Team not found", {})
    ELSE
    LET team == CHOOSE t \in TeamById(w, team_id) : TRUE
        file_count == Cardinality({f \in w.files : f.team_id = team_id})
        \* UPDATE files SET team_id = NULL WHERE team_id = ..
        w1 == IF file_count > 0
              THEN [w EXCEPT !.files = {IF f.team_id = team_id
                                        THEN [f EXCEPT !.team_id = NULL] ELSE f : f \in @}]
              ELSE w
        w2 == [w1 EXCEPT !.team_members = {tm \in @ : tm.team_id # team_id},
                         !.teams = {t \in @ : t.id # team_id}]
        lg == log_activity(w2, user_id, "team_deleted", "team", team_id, fault)
    IN  IF team.owner_id # user_id
        THEN Out(w, FALSE, "Only team owner can disband the team", {})
        ELSE IF lg.raised THEN Out(lg.w, FALSE, "Failed to disband team", {})
        ELSE Out(lg.w, TRUE, "Team disbanded successfully", {})

KickRoles == {"admin", "owner"}

TeamService_kick_user_from_team_any_role(w, team_id, target_user_id, kicking_user_id, fault) ==
    IF MemberRow(w, team_id, kicking_user_id) = {}
    THEN Out(w, FALSE, "Insufficient permissions", {})
    ELSE IF ~IsMember(w, team_id, target_user_id)
    THEN Out(w, FALSE, "User is not a member of this team", {})
    ELSE IF TeamById(w, team_id) = {} THEN Out(w, FALSE, "Team not found", {})
    ELSE
    LET w1 == [w EXCEPT !.team_members =
                  {tm \in @ : ~(tm.team_id = team_id /\ tm.user_id = target_user_id)}]
        lg == log_activity(w1, kicking_user_id, "team_member_kicked", "team", team_id, fault)
    IN  IF lg.raised THEN Out(lg.w, FALSE, "Failed to remove user from team", {})
        ELSE Out(lg.w, TRUE, "User successfully removed from team", {})

TeamService_kick_user_from_team(w, team_id, target_user_id, kicking_user_id, fault) ==
    IF MemberRow(w, team_id, kicking_user_id) = {}
       \/ (CHOOSE tm \in MemberRow(w, team_id, kicking_user_id) : TRUE).role \notin KickRoles
    THEN Out(w, FALSE, "Insufficient permissions", {})
    ELSE IF ~IsMember(w, team_id, target_user_id)
    THEN Out(w, FALSE, "User is not a member of this team", {})
    ELSE IF TeamById(w, team_id) = {} THEN Out(w, FALSE, "Team not found", {})
    ELSE
    LET team == CHOOSE t \in TeamById(w, team_id) : TRUE
        w1 == [w EXCEPT !.team_members =
                  {tm \in @ : ~(tm.team_id = team_id /\ tm.user_id = target_user_id)}]
        lg == log_activity(w1, kicking_user_id, "team_member_kicked", "team", team_id, fault)
    IN  IF team.owner_id = target_user_id THEN Out(w, FALSE, "Cannot kick the team owner", {})
        ELSE IF lg.raised THEN Out(lg.w, FALSE, "Failed to remove user from team", {})
        ELSE Out(lg.w, TRUE, "User successfully removed from team", {})

\* ------------------------------------------------- files.py request handlers
\* FileStorage defines no generate_version_path: the call in update_file
\* raises AttributeError inside the handler's try block
HasGenerateVersionPath == FALSE

generate_version_path(file_id, version_id, filename) ==
    <<"versions", file_id, version_id, sanitize_filename(filename)>>

\* copy_file catches every error and returns False
copy_file(d, src_path, dst_path) ==
    IF file_exists(d, src_path)
    THEN [p \in DOMAIN d \cup {dst_path} |-> IF p = dst_path THEN d[src_path] ELSE d[p]]
    ELSE d

files_create_file(w, user_id, name, content, team_id, fault) ==
    IF strip(name, Whitespace) = <<>> THEN Http(w, 400, "File name required", {})
    ELSE
    LET clean == sanitize_filename(strip(name, Whitespace))
        file_id == w.nextFileId
        \* INSERT INTO files (name, file_path, file_size, ...) VALUES (name, "", 0, ...)
        w1 == [w EXCEPT !.files = @ \cup {[NewFile(file_id, clean, user_id, team_id)
                                            EXCEPT !.file_path = EmptyPath]},
                        !.nextFileId = @ + 1]
        file_path == generate_file_path(file_id, clean)
        sv == save_file(w1.disk, file_path, content, fault)
        w2 == UpdateFile([w1 EXCEPT !.disk = sv.disk], file_id,
                  LAMBDA f : [f EXCEPT !.file_path = file_path,
                                       !.file_size = sv.file_size,
                                       !.checksum = sv.checksum])
        lg == log_activity(w2, user_id, "create", "file", file_id, fault)
    IN  IF team_id # NULL /\ ~IsMember(w, team_id, user_id)
        THEN Http(w, 403, "Access denied to team", {})
        ELSE IF sv.raised \/ lg.raised THEN Http(IF sv.raised THEN w1 ELSE lg.w, 500,
                                                 "Internal server error", {})
        ELSE Http(lg.w, 201, "File created successfully", {"save"})

files_get_file(w, file_id, user_id, fault) ==
    IF ~check_file_access(w, user_id, file_id)
    THEN Http(w, 404, "File not found or access denied", {})
    ELSE IF {f \in FileById(w, file_id) : f.deleted_at = NULL} = {}
    THEN Http(w, 404, "File not found", {})
    ELSE
    LET file_data == CHOOSE f \in FileById(w, file_id) : f.deleted_at = NULL
        rd == read_file(w.disk, file_data.file_path)
        lg == log_activity(w, user_id, "read", "file", file_id, fault)
    IN  IF rd.raised = "missing" THEN Http(w, 404, "File content not found", {})
        ELSE IF rd.raised = "type" \/ lg.raised THEN Http(lg.w, 500, "Internal server error", {})
        ELSE Http(lg.w, 200, "", {"read"})

files_update_file(w, file_id, user_id, name, content, fault) ==
    IF ~check_file_access(w, user_id, file_id)
    THEN Http(w, 404, "File not found or access denied", {})
    ELSE IF FileById(w, file_id) = {} THEN Http(w, 404, "File not found", {})
    ELSE
    LET current_file == CHOOSE f \in FileById(w, file_id) : TRUE
        new_name == IF name # NoneName THEN sanitize_filename(strip(name, Whitespace)) ELSE <<>>
        has_path == current_file.file_path \notin {NullPath, EmptyPath}
        snapshot == content # None /\ has_path
        version_id == w.nextVersionId
        \* INSERT INTO file_versions (file_id, version_path, file_size, checksum, ..)
        w1 == IF snapshot
              THEN [w EXCEPT !.file_versions = @ \cup
                        {[id |-> version_id, file_id |-> file_id, version_path |-> EmptyPath,
                          file_size |-> current_file.file_size,
                          checksum |-> current_file.checksum]},
                             !.nextVersionId = @ + 1]
              ELSE w
        version_path == generate_version_path(file_id, version_id, current_file.name)
        w2 == IF snapshot /\ HasGenerateVersionPath /\ file_exists(w1.disk, current_file.file_path)
              THEN [w1 EXCEPT !.disk = copy_file(@, current_file.file_path, version_path),
                              !.file_versions = {IF v.id = version_id
                                                 THEN [v EXCEPT !.version_path = version_path]
                                                 ELSE v : v \in @}]
              ELSE w1
        sv == save_file(w2.disk, current_file.file_path, content, fault)
        w3 == IF snapshot THEN [w2 EXCEPT !.disk = sv.disk] ELSE w2
        w4 == UpdateFile(w3, file_id,
                  LAMBDA f : [f EXCEPT
                      !.name = IF name # NoneName THEN new_name ELSE @,
                      !.updated_at = Now,
                      !.file_size = IF snapshot THEN sv.file_size ELSE @,
                      !.checksum = IF snapshot THEN sv.checksum ELSE @])
        lg == log_activity(w4, user_id, "update", "file", file_id, fault)
        io == IF snapshot THEN {"save"} ELSE {}
    IN  IF name # NoneName /\ new_name = <<>> THEN Http(w, 400, "Invalid file name", {})
        ELSE IF name = NoneName /\ content = None THEN Http(w, 400, "No updates provided", {})
        \* the INSERT is outside the inner try: its error reaches the handler's except
        ELSE IF snapshot /\ fault = "version" THEN Http(w, 500, "Internal server error", {})
        ELSE IF snapshot /\ sv.raised THEN Http(w2, 500, "Internal server error", {})
        ELSE IF lg.raised THEN Http(lg.w, 500, "Internal server error", io)
        ELSE Http(lg.w, 200, "File updated successfully", io)

files_delete_file(w, file_id, user_id, fault) ==
    IF ~check_file_access(w, user_id, file_id)
    THEN Http(w, 404, "File not found or access denied", {})
    ELSE IF FileById(w, file_id) = {} THEN Http(w, 404, "File not found", {})
    ELSE
    LET \* UPDATE files SET deleted_at = now WHERE id = ..
        w1 == UpdateFile(w, file_id, LAMBDA f : [f EXCEPT !.deleted_at = Stamped])
        lg == log_activity(w1, user_id, "delete", "file", file_id, fault)
    IN  IF lg.raised THEN Http(lg.w, 500, "Internal server error", {})
        ELSE Http(lg.w, 204, "", {})

\* ------------------------------------------------- teams.py request handlers
teams_create_team(w, user_id, name, fault) ==
    LET team_id == w.nextTeamId
        w1 == [w EXCEPT !.teams = @ \cup {[id |-> team_id, name |-> name,
                                           owner_id |-> user_id]},
                        !.nextTeamId = @ + 1,
                        !.team_members = @ \cup {[team_id |-> team_id, user_id |-> user_id,
                                                  role |-> "admin"]}]
        lg == log_activity(w1, user_id, "create", "team", team_id, fault)
        w0 == [w EXCEPT !.teams = @ \cup {[id |-> team_id, name |-> name,
                                           owner_id |-> user_id]},
                        !.nextTeamId = @ + 1]
    IN  IF TeamNameTaken(w, name) THEN Http(w, 500, "Internal server error", {})
        ELSE IF fault = "member" THEN Http(w0, 500, "Internal server error", {})
        ELSE IF lg.raised THEN Http(lg.w, 500, "Internal server error", {})
        ELSE Http(lg.w, 201, "Team created successfully", {})

teams_join_team(w, team_id, user_id, fault) ==
    IF TeamById(w, team_id) = {} THEN Http(w, 404, "Team not found", {})
    ELSE IF IsMember(w, team_id, user_id)
    THEN Http(w, 400, "Already a member of this team", {})
    ELSE
    LET w1 == [w EXCEPT !.team_members =
                  @ \cup {[team_id |-> team_id, user_id |-> user_id, role |-> "member"]}]
        lg == log_activity(w1, user_id, "join", "team", team_id, fault)
    IN  IF lg.raised THEN Http(lg.w, 500, "Internal server error", {})
        ELSE Http(lg.w, 200, "Successfully joined", {})

teams_leave_team(w, team_id, user_id, fault) ==
    IF ~IsMember(w, team_id, user_id) THEN Http(w, 400, "Not a member of this team", {})
    ELSE IF TeamById(w, team_id) = {} THEN Http(w, 404, "Team not found", {})
    ELSE
    LET team == CHOOSE t \in TeamById(w, team_id) : TRUE
        w1 == [w EXCEPT !.team_members =
                  {tm \in @ : ~(tm.team_id = team_id /\ tm.user_id = user_id)}]
        lg == log_activity(w1, user_id, "leave", "team", team_id, fault)
    IN  IF team.owner_id = user_id THEN Http(w, 400, "Team owners cannot leave", {})
        ELSE IF lg.raised THEN Http(lg.w, 500, "Internal server error", {})
        ELSE Http(lg.w, 200, "Successfully left", {})

teams_disband_team(w, team_id, user_id, fault) ==
    IF TeamById(w, team_id) = {} THEN Http(w, 404, "Team not found", {})
    ELSE
    LET team == CHOOSE t \in TeamById(w, team_id) : TRUE
        file_count == Cardinality({f \in w.files : f.team_id = team_id /\ f.deleted_at = NULL})
        \* DELETE FROM team_members WHERE team_id = ..
        wm == [w EXCEPT !.team_members = {tm \in @ : tm.team_id # team_id}]
        \* DELETE FROM teams WHERE id = ..
        w1 == [wm EXCEPT !.teams = {t \in @ : t.id # team_id}]
        lg == log_activity(w1, user_id, "disband", "team", team_id, fault)
    IN  IF team.owner_id # user_id
        THEN Http(w, 403, "Only team owners can disband teams", {})
        ELSE IF file_count > 0 THEN Http(w, 400, "Cannot disband team with files", {})
        ELSE IF FkChildExists(wm, team_id) THEN Http(wm, 500, "Internal server error", {})
        ELSE IF lg.raised THEN Http(lg.w, 500, "Internal server error", {})
        ELSE Http(lg.w, 200, "Successfully disbanded", {})

teams_kick_user_from_team(w, team_id, user_id, target_user_id, fault) ==
    IF MemberRow(w, team_id, user_id) = {}
       \/ (CHOOSE tm \in MemberRow(w, team_id, user_id) : TRUE).role \notin KickRoles
    THEN Http(w, 403, "Only team admins or owners can kick members", {})
    ELSE IF \E t \in TeamById(w, team_id) : t.owner_id = target_user_id
    THEN Http(w, 400, "Cannot kick the team owner", {})
    ELSE IF ~IsMember(w, team_id, target_user_id)
    THEN Http(w, 404, "User is not a member of this team", {})
    ELSE
    LET w1 == [w EXCEPT !.team_members =
                  {tm \in @ : ~(tm.team_id = team_id /\ tm.user_id = target_user_id)}]
        lg == log_activity(w1, user_id, "kick", "team", team_id, fault)
    IN  IF lg.raised THEN Http(lg.w, 500, "Internal server error", {})
        ELSE Http(lg.w, 200, "User kicked from team", {})

\* ------------------------------------------------------------- the machine
\* the empty database and storage directory of a fresh installation
\* the requests served at the same time, and a request between two statements
Procs == {1, 2}

Idle == [pc |-> "idle", team_id |-> NULL, user_id |-> NULL]

Fresh ==
    /\ inflight = [p \in Procs |-> Idle]
    /\ files = {}
    /\ disk = <<>>
    /\ teams = {}
    /\ team_members = {}
    /\ file_versions = {}
    /\ activity_logs = <<>>
    /\ nextFileId = 1
    /\ nextTeamId = 1
    /\ nextVersionId = 1
    /\ last = [op |-> "init", user_id |-> NULL, id |-> NULL, ok |-> TRUE,
               msg |-> "", status |-> NULL, fault |-> "none", touched |-> {}]

\* cap: how many file ids the run may hand out and which users issue calls
Init == Fresh /\ cap = [files |-> MaxFiles, actors |-> Users, log |-> 0]

\* a run whose state keeps the rows of activity_logs
InitLog == Fresh /\ cap = [files |-> MaxFiles, actors |-> {1}, log |-> MaxLog]

InitScope == Fresh /\ cap = [files |-> MaxScopeFiles, actors |-> {1}, log |-> 0]

\* the statements of a call that run without another request in between: the
\* store becomes the outcome's store and the result is recorded;
\* the auto-increment counters are capped by the bounds
Apply(op, user_id, id, fault, o) ==
    /\ user_id \in cap.actors
    /\ o.w.nextFileId <= cap.files + 1
    /\ o.w.nextTeamId <= MaxTeams + 1
    /\ o.w.nextVersionId <= MaxVersions + 1
    /\ Len(o.w.activity_logs) <= (IF cap.log = 0 THEN 1 ELSE cap.log)
    /\ cap' = cap
    /\ files' = Earlier(o.w.files)
    /\ disk' = o.w.disk
    /\ teams' = o.w.teams
    /\ team_members' = o.w.team_members
    /\ file_versions' = o.w.file_versions
    /\ activity_logs' = o.w.activity_logs
    /\ nextFileId' = o.w.nextFileId
    /\ nextTeamId' = o.w.nextTeamId
    /\ nextVersionId' = o.w.nextVersionId
    /\ last' = [op |-> op, user_id |-> user_id, id |-> id, ok |-> o.res.ok,
                msg |-> o.res.msg, status |-> o.res.status, fault |-> fault,
                touched |-> {f.id : f \in (o.w.files \ files) \cup (files \ o.w.files)}]

\* a call that runs from its first statement to its return with no other
\* request in between
Call(op, user_id, id, fault, o) ==
    /\ Apply(op, user_id, id, fault, o)
    /\ inflight' = inflight

\* the ids a call may name: every id handed out so far and the next one
FileIds == 1..(IF nextFileId <= cap.files THEN nextFileId ELSE cap.files)
TeamIds == 1..(IF nextTeamId <= MaxTeams THEN nextTeamId ELSE MaxTeams)
NameArgs == NameInputs \cup {NoneName}
ContentArgs == Contents \cup {None}

create_file ==
    \E name \in NameInputs, content \in NewContents, owner_id \in Users,
       team_id \in TeamIds \cup {NULL}, fault \in Faults :
        Call("FileService.create_file", owner_id, nextFileId, fault,
             FileService_create_file(World, name, content, owner_id, team_id, fault))

get_file_details ==
    \E file_id \in FileIds, user_id \in Users, fault \in LogFaults :
        Call("FileService.get_file_details", user_id, file_id, fault,
             FileService_get_file_details(World, file_id, user_id, fault))

get_file_content ==
    \E file_id \in FileIds, user_id \in Users :
        Call("FileService.get_file_content", user_id, file_id, "none",
             FileService_get_file_content(World, file_id, user_id))

get_file_name ==
    \E file_id \in FileIds, user_id \in Users :
        Call("FileService.get_file_name", user_id, file_id, "none",
             FileService_get_file_name(World, file_id, user_id))

update_file ==
    \E file_id \in FileIds, user_id \in Users, name \in NameArgs,
       content \in ContentArgs, fault \in Faults :
        Call("FileService.update_file", user_id, file_id, fault,
             FileService_update_file(World, file_id, user_id, name, content, fault))

delete_file ==
    \E file_id \in FileIds, user_id \in Users, fault \in LogFaults :
        Call("FileService.delete_file", user_id, file_id, fault,
             FileService_delete_file(World, file_id, user_id, fault))

create_team ==
    \E name \in TeamNames, owner_id \in Users, fault \in TeamFaults :
        Call("TeamService.create_team", owner_id, nextTeamId, fault,
             TeamService_create_team(World, name, owner_id, fault))

join_team ==
    \E team_id \in TeamIds, user_id \in Users, fault \in LogFaults :
        Call("TeamService.join_team", user_id, team_id, fault,
             TeamService_join_team(World, team_id, user_id, fault))

leave_team ==
    \E team_id \in TeamIds, user_id \in Users, fault \in LogFaults :
        Call("TeamService.leave_team", user_id, team_id, fault,
             TeamService_leave_team(World, team_id, user_id, fault))

disband_team ==
    \E team_id \in TeamIds, user_id \in Users, fault \in LogFaults :
        Call("TeamService.disband_team", user_id, team_id, fault,
             TeamService_disband_team(World, team_id, user_id, fault))

kick_user_from_team ==
    \E team_id \in TeamIds, target \in Users, kicker \in Users,
       fault \in Faults \ {"save"} :
        Call("TeamService.kick_user_from_team", kicker, team_id, fault,
             TeamService_kick_user_from_team(World, team_id, target, kicker, fault))

Next ==
    \/ create_file
    \/ get_file_details
    \/ get_file_content
    \/ get_file_name
    \/ update_file
    \/ delete_file
    \/ create_team
    \/ join_team
    \/ leave_team
    \/ disband_team
    \/ kick_user_from_team

Spec == Init /\ [][Next]_vars

SpecLog == InitLog /\ [][Next]_vars

SpecScope == InitScope /\ [][Next]_vars

http_create_file ==
    \E name \in NameInputs, content \in NewContents, user_id \in Users,
       team_id \in TeamIds \cup {NULL}, fault \in Faults :
        Call("files.create_file", user_id, nextFileId, fault,
             files_create_file(World, user_id, name, content, team_id, fault))

http_get_file ==
    \E file_id \in FileIds, user_id \in Users, fault \in LogFaults :
        Call("files.get_file", user_id, file_id, fault,
             files_get_file(World, file_id, user_id, fault))

http_update_file ==
    \E file_id \in FileIds, user_id \in Users, name \in NameArgs,
       content \in ContentArgs, fault \in Faults :
        Call("files.update_file", user_id, file_id, fault,
             files_update_file(World, file_id, user_id, name, content, fault))

http_delete_file ==
    \E file_id \in FileIds, user_id \in Users, fault \in LogFaults :
        Call("files.delete_file", user_id, file_id, fault,
             files_delete_file(World, file_id, user_id, fault))

http_create_team ==
    \E name \in TeamNames, user_id \in Users, fault \in LogFaults :
        Call("teams.create_team", user_id, nextTeamId, fault,
             teams_create_team(World, user_id, name, fault))

http_join_team ==
    \E team_id \in TeamIds, user_id \in Users, fault \in LogFaults :
        Call("teams.join_team", user_id, team_id, fault,
             teams_join_team(World, team_id, user_id, fault))

http_leave_team ==
    \E team_id \in TeamIds, user_id \in Users, fault \in LogFaults :
        Call("teams.leave_team", user_id, team_id, fault,
             teams_leave_team(World, team_id, user_id, fault))

http_disband_team ==
    \E team_id \in TeamIds, user_id \in Users, fault \in LogFaults :
        Call("teams.disband_team", user_id, team_id, fault,
             teams_disband_team(World, team_id, user_id, fault))

http_kick_user_from_team ==
    \E team_id \in TeamIds, user_id \in Users, target \in Users, fault \in LogFaults :
        Call("teams.kick_user_from_team", user_id, team_id, fault,
             teams_kick_user_from_team(World, team_id, user_id, target, fault))

NextRoutes ==
    \/ http_create_file
    \/ http_get_file
    \/ http_update_file
    \/ http_delete_file
    \/ http_create_team
    \/ http_join_team
    \/ http_leave_team
    \/ http_disband_team
    \/ http_kick_user_from_team

SpecRoutes == Init /\ [][NextRoutes]_vars

\* ------------------------------------------ requests that interleave
\* join_team in two steps: the SELECTs, then (another request may have run)
\* the INSERT
race_join_check(p) ==
    /\ inflight[p].pc = "idle"
    /\ \E team_id \in TeamIds, user_id \in Users :
        LET r == join_team_check(World, team_id, user_id)
        IN  IF r = "pass"
            THEN /\ inflight' = [inflight EXCEPT ![p] = [pc |-> "checked", team_id |-> team_id,
                                                         user_id |-> user_id]]
                 /\ UNCHANGED <<files, disk, teams, team_members, file_versions,
                                activity_logs, nextFileId, nextTeamId, nextVersionId,
                                cap, last>>
            ELSE Call("TeamService.join_team", user_id, team_id, "none",
                      Out(World, FALSE, r, {}))

race_join_insert(p) ==
    /\ inflight[p].pc = "checked"
    /\ \E fault \in LogFaults :
        Apply("TeamService.join_team", inflight[p].user_id, inflight[p].team_id, fault,
              join_team_insert(World, inflight[p].team_id, inflight[p].user_id, fault))
    /\ inflight' = [inflight EXCEPT ![p] = Idle]

NextRace ==
    \/ create_team
    \/ leave_team
    \/ \E p \in Procs : race_join_check(p)
    \/ \E p \in Procs : race_join_insert(p)

SpecRace == Init /\ [][NextRace]_vars

\* ------------------------- disband_team and create_file, statement by statement
\* create_file up to its SELECTs: the refusal, or "pass"
create_file_check(w, name, owner_id, team_id) ==
    IF name = <<>> \/ strip(name, Whitespace) = <<>> THEN "File name is required"
    ELSE IF sanitize_filename(strip(name, Whitespace)) = <<>> THEN "Invalid file name"
    ELSE IF team_id # NULL /\ ~IsMember(w, team_id, owner_id) THEN "Access denied to team"
    ELSE IF ExistingInScope(w, sanitize_filename(strip(name, Whitespace)),
                            owner_id, team_id, NULL) # {}
    THEN "File with this name already exists"
    ELSE "pass"

\* create_file from its INSERT on
create_file_insert(w, name, content, owner_id, team_id, fault) ==
    LET clean_name == sanitize_filename(strip(name, Whitespace))
        file_id == w.nextFileId
        w1 == [w EXCEPT !.files = @ \cup {NewFile(file_id, clean_name, owner_id, team_id)},
                        !.nextFileId = @ + 1]
        file_path == generate_file_path(file_id, clean_name)
        sv == save_file(w1.disk, file_path, content, fault)
        w2 == UpdateFile([w1 EXCEPT !.disk = sv.disk], file_id,
                  LAMBDA f : [f EXCEPT !.file_path = file_path,
                                       !.file_size = sv.file_size,
                                       !.checksum = sv.checksum])
        lg == log_activity(w2, owner_id, "file_created", "file", file_id, fault)
    IN  IF FkParentMissing(w, team_id) THEN Out(w, FALSE, "Failed to create file", {})
        ELSE IF sv.raised THEN Out(w1, FALSE, "Failed to create file", {})
        ELSE IF lg.raised THEN Out(lg.w, FALSE, "Failed to create file", {"save"})
        ELSE Out(lg.w, TRUE, "File created successfully", {"save"})

\* disband_team up to its ownership test: the refusal, or "pass"
disband_team_select(w, team_id, user_id) ==
    IF TeamById(w, team_id) = {} THEN "Team not found"
    ELSE IF (CHOOSE t \in TeamById(w, team_id) : TRUE).owner_id # user_id
    THEN "Only team owner can disband the team"
    ELSE "pass"

\* UPDATE files SET team_id = NULL WHERE team_id = ..
disband_team_reassign(w, team_id) ==
    [w EXCEPT !.files = {IF f.team_id = team_id THEN [f EXCEPT !.team_id = NULL] ELSE f :
                             f \in @}]

\* DELETE FROM team_members WHERE team_id = ..
disband_team_delete_members(w, team_id) ==
    [w EXCEPT !.team_members = {tm \in @ : tm.team_id # team_id}]

\* DELETE FROM teams WHERE id = .. and what follows it
disband_team_delete_team(w, team_id, user_id, fault) ==
    LET w1 == [w EXCEPT !.teams = {t \in @ : t.id # team_id}]
        lg == log_activity(w1, user_id, "team_deleted", "team", team_id, fault)
    IN  IF FkChildExists(w, team_id) THEN Out(w, FALSE, "Failed to disband team", {})
        ELSE IF lg.raised THEN Out(lg.w, FALSE, "Failed to disband team", {})
        ELSE Out(lg.w, TRUE, "Team disbanded successfully", {})

\* a step of a request that only moves the request on
Move(p, rec, w) ==
    /\ inflight' = [inflight EXCEPT ![p] = rec]
    /\ files' = w.files
    /\ team_members' = w.team_members
    /\ disk' = w.disk
    /\ UNCHANGED <<teams, file_versions, activity_logs, nextFileId, nextTeamId,
                   nextVersionId, cap, last>>

step_create_check(p) ==
    /\ inflight[p].pc = "idle"
    /\ \E name \in NameInputs, content \in NewContents, owner_id \in Users, team_id \in TeamIds :
        LET r == create_file_check(World, name, owner_id, team_id)
        IN  IF r = "pass"
            THEN Move(p, [pc |-> "create_checked", team_id |-> team_id, user_id |-> owner_id,
                          name |-> name, content |-> content], World)
            ELSE Call("FileService.create_file", owner_id, nextFileId, "none",
                      Out(World, FALSE, r, {}))

step_create_insert(p) ==
    /\ inflight[p].pc = "create_checked"
    /\ Apply("FileService.create_file", inflight[p].user_id, nextFileId, "none",
             create_file_insert(World, inflight[p].name, inflight[p].content,
                                inflight[p].user_id, inflight[p].team_id, "none"))
    /\ inflight' = [inflight EXCEPT ![p] = Idle]

step_disband_select(p) ==
    /\ inflight[p].pc = "idle"
    /\ \E team_id \in TeamIds, user_id \in Users :
        LET r == disband_team_select(World, team_id, user_id)
        IN  IF r = "pass"
            THEN Move(p, [pc |-> "disband_selected", team_id |-> team_id,
                          user_id |-> user_id], World)
            ELSE Call("TeamService.disband_team", user_id, team_id, "none",
                      Out(World, FALSE, r, {}))

\* SELECT COUNT(*) FROM files WHERE team_id = ..
step_disband_count(p) ==
    /\ inflight[p].pc = "disband_selected"
    /\ Move(p, [inflight[p] EXCEPT !.pc = IF FkChildExists(World, inflight[p].team_id)
                                          THEN "disband_counted" ELSE "disband_reassigned"],
            World)

step_disband_reassign(p) ==
    /\ inflight[p].pc = "disband_counted"
    /\ Move(p, [inflight[p] EXCEPT !.pc = "disband_reassigned"],
            disband_team_reassign(World, inflight[p].team_id))

step_disband_delete_members(p) ==
    /\ inflight[p].pc = "disband_reassigned"
    /\ Move(p, [inflight[p] EXCEPT !.pc = "disband_members_deleted"],
            disband_team_delete_members(World, inflight[p].team_id))

step_disband_delete_team(p) ==
    /\ inflight[p].pc = "disband_members_deleted"
    /\ \E fault \in LogFaults :
        Apply("TeamService.disband_team", inflight[p].user_id, inflight[p].team_id, fault,
              disband_team_delete_team(World, inflight[p].team_id, inflight[p].user_id, fault))
    /\ inflight' = [inflight EXCEPT ![p] = Idle]

NextDisband ==
    \/ create_team
    \/ join_team
    \/ \E p \in Procs : step_create_check(p)
    \/ \E p \in Procs : step_create_insert(p)
    \/ \E p \in Procs : step_disband_select(p)
    \/ \E p \in Procs : step_disband_count(p)
    \/ \E p \in Procs : step_disband_reassign(p)
    \/ \E p \in Procs : step_disband_delete_members(p)
    \/ \E p \in Procs : step_disband_delete_team(p)

SpecDisband == Init /\ [][NextDisband]_vars

\* ------------------------------- update_file with content, statement by statement
\* update_file up to its SELECT: the refusal, or "pass"
update_file_select(w, file_id, user_id) ==
    IF ~check_file_access(w, user_id, file_id) THEN "Access denied"
    ELSE IF FileById(w, file_id) = {} THEN "File not found"
    ELSE "pass"

\* save_file: open(file_path, "w") and f.write(content)
save_file_write(d, file_path, content) ==
    [p \in DOMAIN d \cup {file_path} |-> IF p = file_path THEN content ELSE d[p]]

\* save_file: os.path.getsize(file_path), _calculate_checksum(file_path)
save_file_stat(d, file_path) ==
    [file_size |-> ByteLen(d[file_path]), checksum |-> sha256(d[file_path])]

\* update_file from its UPDATE on, for a change of content alone
update_file_persist(w, file_id, user_id, file_size, checksum, fault) ==
    LET w2 == UpdateFile(w, file_id,
                  LAMBDA f : [f EXCEPT !.updated_at = Now, !.file_size = file_size,
                                       !.checksum = checksum])
        lg == log_activity(w2, user_id, "file_edited", "file", file_id, fault)
    IN  IF lg.raised THEN Out(lg.w, FALSE, "Failed to update file", {"save"})
        ELSE Out(lg.w, TRUE, "File updated successfully", {"save"})

step_update_select(p) ==
    /\ inflight[p].pc = "idle"
    /\ \E file_id \in FileIds, user_id \in Users, content \in Contents :
        LET r == update_file_select(World, file_id, user_id)
        IN  IF r = "pass"
            THEN Move(p, [pc |-> "update_selected", team_id |-> NULL, user_id |-> user_id,
                          id |-> file_id, content |-> content,
                          file_path |-> (CHOOSE f \in FileById(World, file_id) : TRUE).file_path,
                          file_size |-> 0, checksum |-> NullSum], World)
            ELSE Call("FileService.update_file", user_id, file_id, "none",
                      Out(World, FALSE, r, {}))

step_update_write(p) ==
    /\ inflight[p].pc = "update_selected"
    /\ IF inflight[p].file_path \in {NullPath, EmptyPath}
       THEN /\ Apply("FileService.update_file", inflight[p].user_id, inflight[p].id, "none",
                     Out(World, FALSE, "Failed to update file", {}))
            /\ inflight' = [inflight EXCEPT ![p] = Idle]
       ELSE Move(p, [inflight[p] EXCEPT !.pc = "update_written"],
                 [World EXCEPT !.disk = save_file_write(disk, inflight[p].file_path,
                                                        inflight[p].content)])

step_update_stat(p) ==
    /\ inflight[p].pc = "update_written"
    /\ Move(p, [inflight[p] EXCEPT
                   !.pc = "update_saved",
                   !.file_size = save_file_stat(disk, inflight[p].file_path).file_size,
                   !.checksum = save_file_stat(disk, inflight[p].file_path).checksum],
            World)

step_update_persist(p) ==
    /\ inflight[p].pc = "update_saved"
    /\ \E fault \in LogFaults :
        Apply("FileService.update_file", inflight[p].user_id, inflight[p].id, fault,
              update_file_persist(World, inflight[p].id, inflight[p].user_id,
                                  inflight[p].file_size, inflight[p].checksum, fault))
    /\ inflight' = [inflight EXCEPT ![p] = Idle]

NextUpdates ==
    \/ create_file
    \/ \E p \in Procs : step_update_select(p)
    \/ \E p \in Procs : step_update_write(p)
    \/ \E p \in Procs : step_update_stat(p)
    \/ \E p \in Procs : step_update_persist(p)

SpecUpdates == Init /\ [][NextUpdates]_vars

\* ------------------------------------------ the content store alone
StoreLocs == {generate_file_path(1, <<"a">>), generate_file_path(BucketSize, <<"a">>)}

store_save_file ==
    \E loc \in StoreLocs, content \in StoreContents, fault \in {"none", "save"} :
        LET sv == save_file(disk, loc, content, fault)
        IN  Call("FileStorage.save_file", 1, NULL, fault,
                 Out([World EXCEPT !.disk = sv.disk], ~sv.raised, "", {"save"}))

store_read_file ==
    \E loc \in StoreLocs :
        Call("FileStorage.read_file", 1, NULL, "none",
             Out(World, read_file(disk, loc).raised = "no", read_file(disk, loc).raised,
                 {"read"}))

store_delete_file ==
    \E loc \in StoreLocs :
        Call("FileStorage.delete_file", 1, NULL, "none",
             Out([World EXCEPT !.disk = storage_delete_file(disk, loc)],
                 file_exists(disk, loc), "", {"delete"}))

store_verify_file_integrity ==
    \E loc \in StoreLocs, content \in StoreContents :
        Call("FileStorage.verify_file_integrity", 1, NULL, "none",
             Out(World, verify_file_integrity(disk, loc, sha256(content)), "", {"read"}))

NextStore ==
    \/ store_save_file
    \/ store_read_file
    \/ store_delete_file
    \/ store_verify_file_integrity

SpecStore == Init /\ [][NextStore]_vars

\* ------------------------------------ a write of the content store in steps
\* open(file_path, "w"): the file is created, or cut to length 0, at once
save_file_open(d, file_path) ==
    [p \in DOMAIN d \cup {file_path} |-> IF p = file_path THEN <<>> ELSE d[p]]

\* leaving the with block: the buffered text reaches the file
save_file_close(d, file_path, content) ==
    [p \in DOMAIN d \cup {file_path} |-> IF p = file_path THEN content ELSE d[p]]

step_save_open(p) ==
    /\ inflight[p].pc = "idle"
    /\ \E loc \in StoreLocs, content \in StoreContents :
        Move(p, [pc |-> "save_opened", team_id |-> NULL, user_id |-> NULL,
                 file_path |-> loc, content |-> content, before |-> read_file(disk, loc)],
             [World EXCEPT !.disk = save_file_open(disk, loc)])

step_save_close(p) ==
    /\ inflight[p].pc = "save_opened"
    /\ Apply("FileStorage.save_file", 1, NULL, "none",
             Out([World EXCEPT !.disk = save_file_close(disk, inflight[p].file_path,
                                                        inflight[p].content)],
                 TRUE, "", {"save"}))
    /\ inflight' = [inflight EXCEPT ![p] = Idle]

NextStoreSteps ==
    \/ \E p \in Procs : step_save_open(p)
    \/ \E p \in Procs : step_save_close(p)
    \/ store_read_file

SpecStoreSteps == Init /\ [][NextStoreSteps]_vars

\* -------------------------------------------------- the sanitizer alone
\* characters of each kind the pattern [^\w\s.-] tells apart: a letter, a
\* digit, the underscore, dot, hyphen, space, tab, a non-ASCII letter, and
\* a path separator
FilenameChars == {"a", "0", "_", ".", "-", " ", "\t", "é", "/"}

RECURSIVE SeqsUpTo(_, _)
SeqsUpTo(S, n) ==
    IF n = 0 THEN {<<>>}
    ELSE LET shorter == SeqsUpTo(S, n - 1)
         IN  shorter \cup {Append(q, c) : q \in {x \in shorter : Len(x) = n - 1}, c \in S}

\* names longer than the limit, with a dot or a space where the cut falls
LongNames == {[i \in 1..(MaxStrLen + 2) |-> IF i = MaxStrLen THEN c ELSE "a"] :
                  c \in {"a", ".", " "}}

FilenameInputs == SeqsUpTo(FilenameChars, MaxNameLen) \cup LongNames

InitSanitize ==
    /\ Fresh
    /\ \E filename \in FilenameInputs :
           cap = [files |-> 0, actors |-> {}, log |-> 0, filename |-> filename,
                  sanitized |-> None]

call_sanitize_filename ==
    /\ cap.sanitized = None
    /\ cap' = [cap EXCEPT !.sanitized = sanitize_filename(cap.filename)]
    /\ last' = [last EXCEPT !.op = "sanitize_filename"]
    /\ UNCHANGED <<files, disk, teams, team_members, file_versions, activity_logs,
                   nextFileId, nextTeamId, nextVersionId, inflight>>

NextSanitize == call_sanitize_filename

SpecSanitize == InitSanitize /\ [][NextSanitize]_vars

\* ------------------------------------------------------------- properties
\* ids a caller may name: those handed out and one that never was
AllFileIds == 1..(cap.files + 1)
AllTeamIds == 1..(MaxTeams + 1)

\* the scope of a file name: the team of a team file, the owner of a personal one
ScopeOf(owner_id, team_id) ==
    IF team_id # NULL THEN <<"team", team_id>> ELSE <<"user", owner_id>>

Live(f) == f.deleted_at = NULL

\* the user owns the file or has a membership row in the file's team
Related(user_id, f) ==
    \/ f.owner_id = user_id
    \/ /\ f.team_id # NULL
       /\ \E tm \in team_members : tm.team_id = f.team_id /\ tm.user_id = user_id

\* the two outcomes are the same result and the same store, the activity
\* rows apart
SameOutcome(a, b) ==
    /\ a.res = b.res
    /\ [a.w EXCEPT !.activity_logs = <<>>] = [b.w EXCEPT !.activity_logs = <<>>]

GatedFileOps == {"FileService.get_file_details", "FileService.get_file_content",
                 "FileService.get_file_name", "FileService.update_file",
                 "FileService.delete_file"}

\* C1: in every reachable state no two non-deleted files share (name, scope)
C1_UniqueNameInScope ==
    \A f, g \in files :
        (f.id # g.id /\ Live(f) /\ Live(g))
            => ~(f.name = g.name /\ ScopeOf(f.owner_id, f.team_id) = ScopeOf(g.owner_id, g.team_id))

C4_DisbandReassignsFiles ==
    \A t \in teams, u \in Users, fault \in LogFaults :
        LET o == TeamService_disband_team(World, t.id, u, fault)
        IN  o.res.ok =>
                /\ o.w.files = {IF f.team_id = t.id THEN [f EXCEPT !.team_id = NULL] ELSE f :
                                    f \in files}
                /\ \A f \in files : \E g \in o.w.files : g.id = f.id /\ g.owner_id = f.owner_id
                /\ \A g \in o.w.files : g.team_id # t.id
                /\ \A x \in o.w.teams : x.id # t.id
                /\ \A tm \in o.w.team_members : tm.team_id # t.id

\* a disband has just succeeded and moved a file out of the team's scope
C4_Witness ==
    /\ last.op = "TeamService.disband_team"
    /\ last.ok
    /\ last.touched # {}
    /\ \E f \in files : f.id \in last.touched /\ f.team_id = NULL
    /\ teams = {}
    /\ team_members = {}

C6_AbsentIsNotFound ==
    \A u \in Users, fault \in LogFaults :
        /\ \A file_id \in AllFileIds :
               (\A f \in files : f.id # file_id)
               => LET o == FileService_delete_file(World, file_id, u, fault)
                  IN  ~o.res.ok /\ o.res.msg = "File not found" /\ o.w = World
        /\ \A team_id \in AllTeamIds :
               (\A t \in teams : t.id # team_id)
               => LET o == TeamService_disband_team(World, team_id, u, fault)
                  IN  ~o.res.ok /\ o.res.msg = "Team not found" /\ o.w = World

\* C7: once a file is deleted, no read, update or delete of its id succeeds
\* or changes its metadata, its content or its versions
C7_DeletedIsTerminal ==
    \A f \in files :
        ~Live(f) =>
            \A u \in Users, name \in NameArgs, content \in ContentArgs, fault \in Faults :
                LET Dead(o) == /\ ~o.res.ok
                               /\ o.w.files = files
                               /\ o.w.disk = disk
                               /\ o.w.file_versions = file_versions
                IN  /\ Dead(files_get_file(World, f.id, u, fault))
                    /\ Dead(files_update_file(World, f.id, u, name, content, fault))
                    /\ Dead(files_delete_file(World, f.id, u, fault))

\* C8: check_file_access is true exactly when the file exists and the user
\* is its owner or has a membership row in its team: false on another
\* user's personal file, true for an owner who is not a member of the team
C8_CanAccessIffOwnerOrMember ==
    \A u \in Users, file_id \in AllFileIds :
        check_file_access(World, u, file_id)
            <=> \E f \in files : f.id = file_id /\ Related(u, f)

\* the owner of a team file who is not a member of the team has just read it
C8_Witness ==
    /\ last.op = "FileService.get_file_name"
    /\ last.ok
    /\ \E f \in files : /\ f.id = last.id
                        /\ f.owner_id = last.user_id
                        /\ f.team_id # NULL
                        /\ ~\E tm \in team_members :
                               tm.team_id = f.team_id /\ tm.user_id = last.user_id

\* C9: every successful update that gives new content adds a file_versions
\* row holding the content, size and checksum the file had before the
\* update, and changes no file_versions row that existed
C9_UpdateSnapshotsBefore ==
    \A f \in files, u \in Users, name \in NameArgs, content \in Contents, fault \in Faults :
        LET o == FileService_update_file(World, f.id, u, name, content, fault)
        IN  o.res.ok =>
                /\ file_versions \subseteq o.w.file_versions
                /\ \E v \in o.w.file_versions \ file_versions :
                       /\ v.file_id = f.id
                       /\ v.file_size = f.file_size
                       /\ v.checksum = f.checksum
                       /\ file_exists(o.w.disk, v.version_path)
                       /\ o.w.disk[v.version_path] = disk[f.file_path]

\* C10: a failure of the INSERT into activity_logs never escapes log_activity
\* and never changes the calling operation's outcome: the result and the
\* store are those of the call whose INSERT worked, the activity row apart
C10_LogFailureIsInvisible ==
    /\ \A u \in Users :
           ~log_activity(World, u, "file_created", "file", NULL, "log").raised
    /\ \A u \in Users, name \in NameInputs, content \in NewContents,
          team_id \in AllTeamIds \cup {NULL} :
           SameOutcome(FileService_create_file(World, name, content, u, team_id, "log"),
                       FileService_create_file(World, name, content, u, team_id, "none"))
    /\ \A u \in Users, file_id \in AllFileIds :
           /\ SameOutcome(FileService_get_file_details(World, file_id, u, "log"),
                          FileService_get_file_details(World, file_id, u, "none"))
           /\ SameOutcome(FileService_delete_file(World, file_id, u, "log"),
                          FileService_delete_file(World, file_id, u, "none"))
           /\ \A name \in NameArgs, content \in ContentArgs :
                  SameOutcome(FileService_update_file(World, file_id, u, name, content, "log"),
                              FileService_update_file(World, file_id, u, name, content, "none"))
    /\ \A u \in Users, team_id \in AllTeamIds :
           /\ SameOutcome(TeamService_join_team(World, team_id, u, "log"),
                          TeamService_join_team(World, team_id, u, "none"))
           /\ SameOutcome(TeamService_leave_team(World, team_id, u, "log"),
                          TeamService_leave_team(World, team_id, u, "none"))
           /\ SameOutcome(TeamService_disband_team(World, team_id, u, "log"),
                          TeamService_disband_team(World, team_id, u, "none"))
           /\ \A target \in Users :
                  SameOutcome(TeamService_kick_user_from_team(World, team_id, target, u, "log"),
                              TeamService_kick_user_from_team(World, team_id, target, u, "none"))

\* a call whose activity INSERT failed has just succeeded, without its row
C10_Witness ==
    /\ last.op \in {"FileService.create_file", "TeamService.join_team"}
    /\ last.fault = "log"
    /\ last.ok
    /\ activity_logs = <<>>
    /\ last.msg \in {"File created successfully", "Successfully joined team"}

\* C11: after any create_team call either the new team row exists together
\* with a membership row of the creator with an elevated role, or neither
\* exists; also when the INSERT into team_members fails
C11_CreateTeamAllOrNothing ==
    \A name \in TeamNames, u \in Users, fault \in TeamFaults :
        \A o \in {TeamService_create_team(World, name, u, fault),
                  teams_create_team(World, u, name, fault)} :
            /\ \A t \in o.w.teams \ teams :
                   \E tm \in o.w.team_members :
                       tm.team_id = t.id /\ tm.user_id = u /\ tm.role \in {"admin", "owner"}
            /\ o.w.teams = teams => o.w.team_members = team_members

\* C12: in every reachable state the owner of each existing team has a
\* membership row in that team
C12_OwnerIsMember ==
    \A t \in teams : \E tm \in team_members : tm.team_id = t.id /\ tm.user_id = t.owner_id

\* C13: no step changes the owner_id of a file that exists before and after
\* it, and an update_file step changes no column of a file other than name,
\* file_size and checksum (and adds or removes no file row)
C13_OwnerImmutable ==
    [][/\ \A f \in files : \A g \in files' : g.id = f.id => g.owner_id = f.owner_id
       /\ last'.op \in {"FileService.update_file", "files.update_file"}
              => /\ {f.id : f \in files'} = {f.id : f \in files}
                 /\ \A f \in files : \A g \in files' :
                        g.id = f.id => g = [f EXCEPT !.name = g.name,
                                                     !.file_size = g.file_size,
                                                     !.checksum = g.checksum]]_vars

\* a member of the team who is not the file's owner has just updated it
C13_Witness ==
    /\ last.op = "FileService.update_file"
    /\ last.ok
    /\ last.touched # {}
    /\ \E f \in files : f.id = last.id /\ f.owner_id # last.user_id /\ f.team_id # NULL

\* C14: in every reachable state there is at most one membership row per
\* (team, user), and a join_team for a user who is a member of the team
\* answers "Already a member of this team" and adds no row: a call that
\* starts now, and a call that has made its SELECTs and whose INSERT runs now
\* (two join_team calls interleave)
C14_OneMembershipPerUser ==
    /\ \A a, b \in team_members :
           (a.team_id = b.team_id /\ a.user_id = b.user_id) => a = b
    /\ \A tm \in team_members, fault \in LogFaults :
           LET Conflict(o) == /\ ~o.res.ok
                              /\ o.res.msg = "Already a member of this team"
                              /\ o.w.team_members = team_members
           IN  /\ Conflict(TeamService_join_team(World, tm.team_id, tm.user_id, fault))
               /\ \A p \in Procs :
                      (/\ inflight[p].pc = "checked"
                       /\ inflight[p].team_id = tm.team_id
                       /\ inflight[p].user_id = tm.user_id)
                      => Conflict(join_team_insert(World, tm.team_id, tm.user_id, fault))

\* C15: in every reachable state no two teams have the same name, and a
\* create_team with a name in use is refused as a conflict ("Team name
\* already exists"; a 400 or 409 of the request handler) and inserts neither
\* a team row nor a membership row
C15_TeamNamesUnique ==
    /\ \A a, b \in teams : a.name = b.name => a = b
    /\ \A t \in teams, u \in Users, fault \in TeamFaults :
           LET s == TeamService_create_team(World, t.name, u, fault)
               h == teams_create_team(World, u, t.name, fault)
           IN  /\ ~s.res.ok
               /\ s.res.msg = "Team name already exists"
               /\ s.w = World
               /\ h.res.status \in {400, 409}
               /\ h.w = World

\* C16: save_file(loc, content) followed at once by read_file(loc) returns
\* exactly content; verify_file_integrity(loc, c) with the checksum c that
\* save_file returned is true, and it is false with any other checksum and on
\* a location that does not exist
C16_RoundTrip ==
    \A loc \in StoreLocs, content \in StoreContents :
        LET sv == save_file(disk, loc, content, "none")
        IN  /\ ~sv.raised
            /\ read_file(sv.disk, loc).raised = "no"
            /\ read_file(sv.disk, loc).content = content
            /\ verify_file_integrity(sv.disk, loc, sv.checksum)
            /\ \A other \in StoreContents :
                   other # content => ~verify_file_integrity(sv.disk, loc, sha256(other))
            /\ \A absent \in StoreLocs :
                   ~file_exists(sv.disk, absent)
                       => ~verify_file_integrity(sv.disk, absent, sv.checksum)

\* C17: a disband_team by a user who is not the team's owner is refused
\* ("Only team owner can disband the team"; 403 by the request handler) and
\* changes nothing: every file's team_id, every membership row and the team
\* row are as before the call
C17_DisbandByNonOwnerRefused ==
    \A t \in teams, u \in Users, fault \in LogFaults :
        u # t.owner_id =>
            LET s == TeamService_disband_team(World, t.id, u, fault)
                h == teams_disband_team(World, t.id, u, fault)
            IN  /\ ~s.res.ok
                /\ s.res.msg = "Only team owner can disband the team"
                /\ s.w = World
                /\ h.res.status = 403
                /\ h.res.msg = "Only team owners can disband teams"
                /\ h.w = World

\* a member who is not the owner has just been refused the disbanding of a
\* team that has a file
C17_Witness ==
    /\ last.op = "TeamService.disband_team"
    /\ ~last.ok
    /\ last.msg = "Only team owner can disband the team"
    /\ \E t \in teams : /\ t.id = last.id
                        /\ t.owner_id # last.user_id
                        /\ \E tm \in team_members :
                               tm.team_id = t.id /\ tm.user_id = last.user_id
                        /\ \E f \in files : f.team_id = t.id

C19_NonMemberCreateDenied ==
    \A name \in NameInputs, content \in NewContents, owner_id \in Users,
       team_id \in AllTeamIds, fault \in Faults :
        (~\E tm \in team_members : tm.team_id = team_id /\ tm.user_id = owner_id)
        => LET o == FileService_create_file(World, name, content, owner_id, team_id, fault)
           IN  /\ ~o.res.ok
               /\ o.res.msg = "Access denied to team"
               /\ o.w.files = files
               /\ o.w.disk = disk

\* C19 amended: such a Create is always refused, inserts no file row and
\* writes no content; the refusal is "Access denied to team" when the name is
\* not blank (a blank name is refused before, as "File name is required")
C19_NonMemberCreateDeniedAfterValidation ==
    \A name \in NameInputs, content \in NewContents, owner_id \in Users,
       team_id \in AllTeamIds, fault \in Faults :
        (~\E tm \in team_members : tm.team_id = team_id /\ tm.user_id = owner_id)
        => LET o == FileService_create_file(World, name, content, owner_id, team_id, fault)
               h == files_create_file(World, owner_id, name, content, team_id, fault)
           IN  /\ ~o.res.ok /\ o.res.io = {} /\ o.w = World
               /\ ~h.res.ok /\ h.res.io = {} /\ h.w = World
               /\ strip(name, Whitespace) # <<>>
                      => /\ o.res.msg = "Access denied to team"
                         /\ h.res.msg = "Access denied to team"
                         /\ h.res.status = 403
               /\ strip(name, Whitespace) = <<>>
                      => /\ o.res.msg = "File name is required"
                         /\ h.res.status = 400

\* a Create into an existing team has just been denied to a non-member
C19_Witness ==
    /\ last.op = "FileService.create_file"
    /\ ~last.ok
    /\ last.msg = "Access denied to team"
    /\ last.touched = {}
    /\ \E t \in teams : ~\E tm \in team_members :
                            tm.team_id = t.id /\ tm.user_id = last.user_id

\* C20: for every input the sanitizer returns a non-empty name of at most
\* 255 characters, made only of ASCII letters, digits, underscore, dot,
\* hyphen and space, that neither starts nor ends with a dot or a space; it
\* returns "untitled" when nothing remains of the input
C20_SanitizedNameIsSafe ==
    last.op = "sanitize_filename" =>
        LET out == cap.sanitized
            Allowed == {"a", "0", "_", ".", "-", " "}
            kept == SelectSeq(cap.filename, LAMBDA c : c \in Allowed)
        IN  /\ out # <<>>
            /\ Len(out) <= 255
            /\ \A i \in 1..Len(out) : out[i] \in Allowed \cup {"u", "n", "t", "i", "l", "e", "d"}
            /\ out[1] \notin {".", " "}
            /\ out[Len(out)] \notin {".", " "}
            /\ (\A i \in 1..Len(kept) : kept[i] \in {".", " "}) => out = Untitled

C22_LastWriterWins ==
    (\A p \in Procs : inflight[p].pc = "idle")
    => \A f \in files :
           f.file_path \in DOMAIN disk
           => /\ f.file_size = ByteLen(disk[f.file_path])
              /\ f.checksum = sha256(disk[f.file_path])

\* C23: while one save_file of a location is under way and no other, a
\* read_file of the location returns what it returned before the write began
\* (the content, or the location being absent) or the whole new content
C23_NoPartialRead ==
    \A p \in Procs :
        (/\ inflight[p].pc = "save_opened"
         /\ \A q \in Procs \ {p} : inflight[q].pc = "idle")
        => LET r == read_file(disk, inflight[p].file_path)
           IN  \/ r = inflight[p].before
               \/ r = [raised |-> "no", content |-> universal_newlines(inflight[p].content)]

\* C24: in the store a successful leave_team or kick_user_from_team leaves
\* behind, the access gate refuses the user who left or was kicked for every
\* file of the team that the user does not own, and get_file_details,
\* update_file and delete_file answer "Access denied" and change nothing; in
\* the store a successful join_team leaves behind, the gate admits the new
\* member to every file of the team and none of the three answers
\* "Access denied"
C24_MembershipChangeVisibleAtOnce ==
    \A t \in teams, u \in Users, fault \in LogFaults :
        LET Denied(w, f) ==
                /\ ~check_file_access(w, u, f.id)
                /\ \A o \in {FileService_get_file_details(w, f.id, u, fault),
                             FileService_update_file(w, f.id, u, NoneName, <<"x">>, fault),
                             FileService_delete_file(w, f.id, u, fault)} :
                       /\ ~o.res.ok
                       /\ o.res.msg = "Access denied"
                       /\ o.res.io = {}
                       /\ o.w = w
            Allowed(w, f) ==
                /\ check_file_access(w, u, f.id)
                /\ \A o \in {FileService_get_file_details(w, f.id, u, fault),
                             FileService_update_file(w, f.id, u, NoneName, <<"x">>, fault),
                             FileService_delete_file(w, f.id, u, fault)} :
                       o.res.msg # "Access denied"
            TeamFiles(w) == {f \in w.files : f.team_id = t.id}
            left == TeamService_leave_team(World, t.id, u, fault)
            joined == TeamService_join_team(World, t.id, u, fault)
        IN  /\ left.res.ok
                   => \A f \in TeamFiles(left.w) : f.owner_id # u => Denied(left.w, f)
            /\ \A kicker \in Users :
                   LET kicked == TeamService_kick_user_from_team(World, t.id, u, kicker, fault)
                   IN  kicked.res.ok
                           => \A f \in TeamFiles(kicked.w) : f.owner_id # u => Denied(kicked.w, f)
            /\ joined.res.ok
                   => \A f \in TeamFiles(joined.w) : Allowed(joined.w, f)

\* a member has just left a team that has a file of another user, which the
\* gate admitted the member to until then
C24_Witness ==
    /\ last.op = "teams.leave_team"
    /\ last.ok
    /\ \E f \in files : /\ f.team_id = last.id
                        /\ f.owner_id # last.user_id
                        /\ ~check_file_access(World, last.user_id, f.id)

\* a team with a file has a member, other than the file's owner, whom an
\* admin of the team can kick
C24_WitnessKick ==
    \E t \in teams, u \in Users, kicker \in Users :
        /\ TeamService_kick_user_from_team(World, t.id, u, kicker, "none").res.ok
        /\ \E f \in files : f.team_id = t.id /\ f.owner_id # u

\* C25: an update through the request handler that gives new content to a
\* file with a location succeeds, stores the new content and records its size
\* and checksum, also when the snapshot fails: when the INSERT into
\* file_versions fails and when the copy of the old content fails
C25_SnapshotFailureDoesNotAbort ==
    \A f \in files, u \in Users, content \in Contents, fault \in VersionFaults :
        (/\ check_file_access(World, u, f.id)
         /\ f.file_path \notin {NullPath, EmptyPath})
        => LET h == files_update_file(World, f.id, u, NoneName, content, fault)
           IN  /\ h.res.ok
               /\ h.res.msg = "File updated successfully"
               /\ h.w.disk[f.file_path] = content
               /\ \E g \in h.w.files : /\ g.id = f.id
                                       /\ g.file_size = ByteLen(content)
                                       /\ g.checksum = sha256(content)

\* C26: every successful update_file, of the name, of the content or of
\* both, leaves the file's row with updated_at set to the time of the call
C26_UpdateStampsTime ==
    \A f \in files, u \in Users, name \in NameArgs, content \in ContentArgs, fault \in Faults :
        LET o == FileService_update_file(World, f.id, u, name, content, fault)
        IN  o.res.ok => \A g \in o.w.files : g.id = f.id => g.updated_at = Now

C28_FailedCreateLeavesNoRow ==
    \A u \in Users, name \in NameInputs, content \in NewContents,
       team_id \in AllTeamIds \cup {NULL}, fault \in Faults :
        LET o == FileService_create_file(World, name, content, u, team_id, fault)
            again == FileService_create_file(o.w, name, content, u, team_id, "none")
        IN  (~o.res.ok /\ o.res.msg = "Failed to create file")
            => /\ {f.id : f \in o.w.files} = {f.id : f \in files}
               /\ again.res.msg # "File with this name already exists"

\* C29: for every user and every file id, the file is among the rows
\* get_user_files returns for the user exactly when check_file_access
\* admits the user to it
C29_ListingMatchesGate ==
    \A u \in Users, file_id \in AllFileIds :
        (file_id \in {f.id : f \in FileService_get_user_files(World, u)})
            <=> check_file_access(World, u, file_id)

\* a user has just joined a team, and the listing now shows the user a team
\* file of another user
C29_Witness ==
    /\ last.op = "teams.join_team"
    /\ last.ok
    /\ \E f \in FileService_get_user_files(World, last.user_id) :
           f.team_id = last.id /\ f.owner_id # last.user_id

\* C30: every row of team_members whose role is admin or owner is the row
\* of the owner of its team, and a kick_user_from_team by a user who is not
\* the owner of the team, through the service or the request handler, is
\* refused and leaves team_members as it was
C30_OnlyOwnerKicks ==
    /\ \A tm \in team_members :
           tm.role \in KickRoles
               => \E t \in teams : t.id = tm.team_id /\ t.owner_id = tm.user_id
    /\ \A team_id \in AllTeamIds, kicker \in Users, target \in Users, fault \in LogFaults :
           (~\E t \in teams : t.id = team_id /\ t.owner_id = kicker)
               => LET s == TeamService_kick_user_from_team(World, team_id, target, kicker, fault)
                      h == teams_kick_user_from_team(World, team_id, kicker, target, fault)
                  IN  /\ ~s.res.ok
                      /\ s.w.team_members = team_members
                      /\ ~h.res.ok
                      /\ h.w.team_members = team_members

\* a member who joined a team, and does not own it, has just tried to kick
\* one of its members and was refused
C30_Witness ==
    /\ last.op = "teams.kick_user_from_team"
    /\ ~last.ok
    /\ \E t \in teams : t.id = last.id /\ t.owner_id # last.user_id
    /\ \E tm \in team_members : /\ tm.team_id = last.id
                                /\ tm.user_id = last.user_id
                                /\ tm.role = "member"
    /\ \E tm \in team_members : tm.team_id = last.id /\ tm.role = "admin"

====
